---- MODULE Spec2Model ----
(***************************************************************************)
(* A model of pdf_claude_ocr: the transcription client (claude_ocr.py),    *)
(* the page rasterizer (pdf_converter.py), the output assembler            *)
(* (file_manager.py) and the interactive run (streamlit_app.py).           *)
(*                                                                         *)
(* Python strings are modelled as sequences of tokens, so that string      *)
(* concatenation is sequence concatenation.  One operation of the program  *)
(* runs per behaviour; `op` names it.                                      *)
(***************************************************************************)
EXTENDS Integers, Sequences, FiniteSets, TLC

VARIABLES
    op,             \* the operation this behaviour runs ("idle" before it starts)
    \* ClaudeOCR.extract_text_from_image, called on its own
    s_in,           \* what the environment did: image load and API response
    s_out,          \* the outcome of the call: returned value, or raised
    x_script,       \* when both loops are run on one image list: what the
                    \* environment does to the model call for each image
    \* ClaudeOCR.extract_text_batch
    b_pc,           \* position in the loop body
    image_paths,    \* the image_paths argument
    delay,          \* the delay argument
    progress_callback, \* TRUE when a callback is supplied
    total,          \* len(image_paths)
    b_i,            \* the loop index i
    results,        \* the results dict
    b_exc,          \* the exception the except clause handles
    b_calls,        \* per page index, whether the model call succeeded
    b_events,       \* the calls, result records, callbacks and sleeps made, in order
    b_returned,     \* the value returned
    \* ClaudeOCR.extract_with_retry
    r_pc,
    max_retries,    \* the max_retries argument
    attempt,        \* the loop variable
    r_script,       \* what the environment does to the successive model calls
    r_events,       \* calls and sleeps, in order
    r_out,          \* the outcome: returned value (None included) or raised
    \* FileManager.save_as_txt
    t_pc,
    ocr_results,    \* the ocr_results argument
    t_order,        \* the order in which its keys were inserted
    include_page_numbers,
    t_keys,         \* sorted(ocr_results.keys())
    t_k,            \* position of the loop in t_keys
    t_file,         \* the writes made to the output file, in order
    t_out,          \* the value returned
    \* FileManager.save_as_pdf_fpdf
    p_call,         \* the last call: its arguments, the environment, its outcome
    \* the temporary files and directories that exist
    fs,
    \* PDFConverter.convert_pdf_to_images
    c_call,         \* the last call: its arguments, the environment, its outcome
    \* PDFConverter.optimize_image_for_ocr
    o_call,         \* the last call: the image given, the step that fails, its outcome
    \* streamlit_app.py: session state and process_pdf
    processing,     \* st.session_state.processing
    session_results, \* st.session_state.results: the run that set it, the file name and
                    \* what kind of document the content is; the content itself is
                    \* pp_content of that run
    run,            \* number of the run of process_pdf
    pp_pc,          \* position in process_pdf
    pp_exit,        \* the path by which process_pdf returned
    output_format,  \* the output_format argument
    pp_page_numbers, \* the include_page_numbers argument
    pp_created,     \* the temporary files and directories this run created
    pp_image_paths, \* the local image_paths
    pp_ocr_results, \* the local ocr_results
    pp_i,           \* index of the OCR loop
    pp_saved,       \* what save_as_pdf_reportlab returned, "none" before it is called
    pp_content,     \* the result_text or pdf_content this run put in the session
    pp_errors       \* the messages shown with st.error

ocr_vars == <<s_in, s_out, x_script, b_pc, image_paths, delay, progress_callback, total, b_i,
              results, b_exc, b_calls, b_events, b_returned,
              r_pc, max_retries, attempt, r_script, r_events, r_out>>

single_vars == <<s_in, s_out>>
call_vars == <<single_vars, x_script>>
batch_vars == <<b_pc, image_paths, delay, progress_callback, total, b_i,
                results, b_exc, b_calls, b_events, b_returned>>
retry_vars == <<r_pc, max_retries, attempt, r_script, r_events, r_out>>
txt_vars == <<t_pc, ocr_results, t_order, include_page_numbers, t_keys, t_k, t_file, t_out>>

file_vars == <<txt_vars, p_call>>

conv_vars == <<fs, c_call>>
converter_vars == <<conv_vars, o_call>>
app_vars == <<processing, session_results, run, pp_pc, pp_exit, output_format, pp_page_numbers,
              pp_created, pp_image_paths, pp_ocr_results, pp_i, pp_saved, pp_content, pp_errors>>

vars == <<op, ocr_vars, file_vars, converter_vars, app_vars>>

----------------------------------------------------------------------------
(* Bounds of the model *)

MaxPages == 3       \* longest image list given to the batch
MaxRetries == 3     \* largest max_retries argument
MaxKey == 2         \* largest key of a mapping given to save_as_txt
MaxPdfPages == 2    \* most pages the rasterizer returns for a PDF
MaxRuns == 2        \* most runs of process_pdf in one session

(* The texts a page can carry *)
Texts == {<<"T1">>, <<"T2">>}

None == <<"None">>

RECURSIVE SeqsUpTo(_, _)
SeqsUpTo(S, n) ==
    IF n = 0 THEN {<<>>}
    ELSE LET shorter == SeqsUpTo(S, n - 1)
         IN  shorter \cup {Append(s, x) : s \in {t \in shorter : Len(t) = n - 1}, x \in S}

(* What the environment can do to one call of the model API: the image     *)
(* file can be unreadable, the request can raise, or a response arrives    *)
(* whose content has no segment, one segment or several.                   *)
Contents == {<<>>} \cup {<<t>> : t \in Texts} \cup {<<t, u>> : t, u \in Texts}

Responses ==
    {[raised |-> TRUE, error |-> <<"api_error">>, content |-> <<>>]}
    \cup {[raised |-> FALSE, error |-> <<>>, content |-> c] : c \in Contents}

NoResponse == [raised |-> FALSE, error |-> <<>>, content |-> <<>>]

(* no request is made for an image that cannot be read *)
CallOutcomes ==
    {[load |-> "unreadable", resp |-> NoResponse]}
    \cup {[load |-> "ok", resp |-> r] : r \in Responses}

ModelCallFailed(env) == env.load # "ok" \/ env.resp.raised

----------------------------------------------------------------------------
(* claude_ocr.py *)

Return(v) == [raised |-> FALSE, value |-> v]
Raise(e) == [raised |-> TRUE, value |-> e]

NoTextSentinel == <<"NO_TEXT_EXTRACTED">>
ErrorMarker(e) == <<"ERROR_MARKER">> \o e

image_to_base64(load) ==
    IF load = "ok" THEN Return(<<"base64">>) ELSE Raise(<<"io_error">>)

(* lines 82-141 *)
(* The variant below is the function with an except clause that re-raises  *)
(* instead of returning the marker.                                        *)
extract_text_from_image_reraises(load, resp) ==
    LET enc == image_to_base64(load)
    IN  IF enc.raised THEN Raise(enc.value)
        ELSE IF resp.raised THEN Raise(resp.error)
        ELSE IF Len(resp.content) > 0 THEN Return(resp.content[1])
        ELSE Return(NoTextSentinel)

(* The result is the string returned; no path of the function raises.      *)
extract_text_from_image(load, resp) ==
    LET enc == image_to_base64(load)
    IN  IF enc.raised THEN Return(ErrorMarker(enc.value))
        ELSE IF resp.raised THEN Return(ErrorMarker(resp.error))
        ELSE IF Len(resp.content) > 0 THEN Return(resp.content[1])
        ELSE Return(NoTextSentinel)

(* One call of extract_text_from_image by a caller of the class *)
single_call ==
    /\ op = "idle"
    /\ \E env \in CallOutcomes :
        /\ s_in' = env
        /\ s_out' = extract_text_from_image(env.load, env.resp)
    /\ op' = "single"
    /\ UNCHANGED <<x_script, batch_vars, retry_vars, file_vars, converter_vars, app_vars>>

----------------------------------------------------------------------------
(* extract_text_batch *)

Delays == {-1, 0, 1}

PageResult(i, text, status) ==
    [page |-> i + 1, text |-> text, status |-> status, image_path |-> image_paths[i + 1]]

Store(d, k, v) == [j \in DOMAIN d \cup {k} |-> IF j = k THEN v ELSE d[j]]

EmptyDict == [j \in {} |-> 0]

(* what the model call for the image at index i can do: anything, or what  *)
(* is fixed for that image when both loops are run on one list             *)
PageOutcomes(i) == IF op = "both" THEN {x_script[i + 1]} ELSE CallOutcomes

batch_start ==
    /\ op = "idle"
    /\ op' = "batch"
    /\ \E n \in 0..MaxPages, d \in Delays, cb \in BOOLEAN :
        /\ image_paths' = [k \in 1..n |-> <<"image", k>>]
        /\ delay' = d
        /\ progress_callback' = cb
        /\ total' = n
        /\ b_pc' = IF n > 0 THEN "call" ELSE "return"
    /\ results' = EmptyDict
    /\ b_i' = 0
    /\ UNCHANGED <<b_exc, b_calls, b_events, b_returned, call_vars, retry_vars, file_vars, converter_vars, app_vars>>

(* the for statement moves to the next image, or the loop ends *)
batch_advance ==
    /\ b_i' = b_i + 1
    /\ b_pc' = IF b_i + 1 < total THEN "call" ELSE "return"

(* lines 170-179: the call and the success record *)
batch_call ==
    /\ op \in {"batch", "both"} /\ b_pc = "call"
    /\ \E env \in PageOutcomes(b_i) :
        LET r == extract_text_from_image(env.load, env.resp)
        IN  /\ b_calls' = Append(b_calls, IF ModelCallFailed(env) THEN "failed" ELSE "ok")
            /\ IF r.raised
               THEN /\ b_exc' = r.value
                    /\ b_pc' = "except"
                    /\ b_events' = Append(b_events, <<"call", b_i>>)
                    /\ UNCHANGED results
               ELSE /\ results' = Store(results, b_i, PageResult(b_i, r.value, "success"))
                    /\ b_events' = b_events \o << <<"call", b_i>>, <<"record", b_i, "success">> >>
                    /\ b_pc' = "callback"
                    /\ UNCHANGED b_exc
    /\ UNCHANGED <<op, image_paths, delay, progress_callback, total, b_i, b_returned,
                   call_vars, retry_vars, file_vars, converter_vars, app_vars>>

(* The variant below passes the index of the page, not the number of pages *)
(* completed.                                                              *)
batch_callback_passes_index ==
    /\ op \in {"batch", "both"} /\ b_pc = "callback"
    /\ IF progress_callback
       THEN /\ b_events' = Append(b_events, <<"callback", b_i, total>>)
            /\ \E cbRaises \in BOOLEAN :
                IF cbRaises
                THEN b_exc' = <<"callback_error">> /\ b_pc' = "except"
                ELSE b_pc' = "sleep" /\ UNCHANGED b_exc
       ELSE /\ b_pc' = "sleep"
            /\ UNCHANGED <<b_events, b_exc>>
    /\ UNCHANGED <<op, image_paths, delay, progress_callback, total, b_i, results, b_calls,
                   b_returned, call_vars, retry_vars, file_vars, converter_vars, app_vars>>

(* lines 182-183: the progress callback, which is the caller's code and may raise *)
batch_callback ==
    /\ op \in {"batch", "both"} /\ b_pc = "callback"
    /\ IF progress_callback
       THEN /\ b_events' = Append(b_events, <<"callback", b_i + 1, total>>)
            /\ \E cbRaises \in BOOLEAN :
                IF cbRaises
                THEN b_exc' = <<"callback_error">> /\ b_pc' = "except"
                ELSE b_pc' = "sleep" /\ UNCHANGED b_exc
       ELSE /\ b_pc' = "sleep"
            /\ UNCHANGED <<b_events, b_exc>>
    /\ UNCHANGED <<op, image_paths, delay, progress_callback, total, b_i, results, b_calls,
                   b_returned, call_vars, retry_vars, file_vars, converter_vars, app_vars>>

(* lines 186-187: time.sleep raises ValueError on a negative delay *)
batch_sleep ==
    /\ op \in {"batch", "both"} /\ b_pc = "sleep"
    /\ IF b_i < total - 1
       THEN IF delay < 0
            THEN /\ b_exc' = <<"sleep_error">>
                 /\ b_pc' = "except"
                 /\ UNCHANGED <<b_i, b_events>>
            ELSE /\ b_events' = Append(b_events, <<"sleep", delay>>)
                 /\ batch_advance
                 /\ UNCHANGED b_exc
       ELSE /\ batch_advance
            /\ UNCHANGED <<b_events, b_exc>>
    /\ UNCHANGED <<op, image_paths, delay, progress_callback, total, results, b_calls,
                   b_returned, call_vars, retry_vars, file_vars, converter_vars, app_vars>>

(* The variant below is the except clause followed by a break.             *)
batch_except_aborts ==
    /\ op \in {"batch", "both"} /\ b_pc = "except"
    /\ results' = Store(results, b_i, PageResult(b_i, ErrorMarker(b_exc), "error"))
    /\ b_events' = Append(b_events, <<"record", b_i, "error">>)
    /\ b_i' = b_i + 1
    /\ b_pc' = "return"
    /\ UNCHANGED <<op, image_paths, delay, progress_callback, total, b_exc, b_calls,
                   b_returned, call_vars, retry_vars, file_vars, converter_vars, app_vars>>

(* lines 189-196: the except clause records an error result; the loop goes on *)
batch_except ==
    /\ op \in {"batch", "both"} /\ b_pc = "except"
    /\ results' = Store(results, b_i, PageResult(b_i, ErrorMarker(b_exc), "error"))
    /\ b_events' = Append(b_events, <<"record", b_i, "error">>)
    /\ batch_advance
    /\ UNCHANGED <<op, image_paths, delay, progress_callback, total, b_exc, b_calls,
                   b_returned, call_vars, retry_vars, file_vars, converter_vars, app_vars>>

(* line 199 *)
batch_return ==
    /\ op \in {"batch", "both"} /\ b_pc = "return"
    /\ b_returned' = Return(results)
    /\ b_pc' = "done"
    /\ UNCHANGED <<op, image_paths, delay, progress_callback, total, b_i, results, b_exc,
                   b_calls, b_events, call_vars, retry_vars, file_vars, converter_vars, app_vars>>

extract_text_batch == batch_call \/ batch_callback \/ batch_sleep \/ batch_except \/ batch_return

----------------------------------------------------------------------------
(* extract_with_retry *)

Pow2(n) == 2 ^ n

retry_start ==
    /\ op = "idle"
    /\ op' = "retry"
    /\ \E m \in 0..MaxRetries :
        /\ max_retries' = m
        /\ r_pc' = IF m > 0 THEN "attempt" ELSE "fall_off"
        /\ r_script' \in [1..m -> CallOutcomes]
    /\ attempt' = 0
    /\ UNCHANGED <<r_events, r_out, call_vars, batch_vars, file_vars, converter_vars, app_vars>>

(* lines 218-228: one iteration of the loop: the call, and the except clause *)
retry_attempt ==
    /\ op = "retry" /\ r_pc = "attempt"
    /\ LET env == r_script[attempt + 1]
            r == extract_text_from_image(env.load, env.resp)
        IN  /\ IF ~r.raised
               THEN /\ r_out' = r
                    /\ r_pc' = "done"
                    /\ r_events' = Append(r_events, <<"call">>)
                    /\ UNCHANGED attempt
               ELSE IF attempt = max_retries - 1
               THEN /\ r_out' = Raise(r.value)
                    /\ r_pc' = "done"
                    /\ r_events' = Append(r_events, <<"call">>)
                    /\ UNCHANGED attempt
               ELSE /\ r_events' = r_events \o << <<"call">>, <<"sleep", Pow2(attempt)>> >>
                    /\ attempt' = attempt + 1
                    /\ r_pc' = IF attempt + 1 < max_retries THEN "attempt" ELSE "fall_off"
                    /\ UNCHANGED r_out
    /\ UNCHANGED <<op, max_retries, r_script, call_vars, batch_vars, file_vars, converter_vars, app_vars>>

(* range(max_retries) is empty: the function body ends and None is returned *)
retry_fall_off ==
    /\ op = "retry" /\ r_pc = "fall_off"
    /\ r_out' = Return(None)
    /\ r_pc' = "done"
    /\ UNCHANGED <<op, max_retries, attempt, r_script, r_events, call_vars, batch_vars, file_vars, converter_vars, app_vars>>

extract_with_retry == retry_attempt \/ retry_fall_off

----------------------------------------------------------------------------
(* file_manager.py: save_as_txt *)

(* the strings save_as_txt writes *)
Title == <<"PDF OCR RESULT", "\n">>
Bar50 == <<"=*50">>
Bar20 == <<"-*20">>
TotalPages(n) == <<"TOTAL PAGES: ", n, "\n">>
PageLabel(n) == <<"PAGE ", n, "\n">>
ErrorPrefix == <<"[ERROR] ">>
Completed(n) == <<"\n", "COMPLETED: ", n, "PAGES">>
page_separator == <<"\n">> \o Bar50 \o <<"\n">>

Statuses == {"success", "error"}

RECURSIVE Perms(_)
Perms(S) ==
    IF S = {} THEN {<<>>}
    ELSE UNION {{<<x>> \o q : q \in Perms(S \ {x})} : x \in S}

RECURSIVE insort(_, _)
insort(x, s) ==
    IF s = <<>> THEN <<x>>
    ELSE IF x <= Head(s) THEN <<x>> \o s
    ELSE <<Head(s)>> \o insort(x, Tail(s))

RECURSIVE sorted_from(_, _)
sorted_from(s, acc) ==
    IF s = <<>> THEN acc ELSE sorted_from(Tail(s), insort(Head(s), acc))

(* The variant below iterates the keys as the dict yields them.            *)
keys_in_insertion_order(s) == s

(* sorted(ocr_results.keys()): the keys come in insertion order *)
sorted(s) == sorted_from(s, <<>>)

max(S) == CHOOSE m \in S : \A x \in S : x <= m

len(d) == Cardinality(DOMAIN d)

(* The variant below compares the key with the number of entries.         *)
not_last_by_count(i, d) == i < len(d) - 1

(* line 105: i < max(ocr_results.keys()) *)
not_last_page(i, d) == i < max(DOMAIN d)

txt_start ==
    /\ op = "idle"
    /\ op' = "save_txt"
    /\ t_pc' = "open"
    /\ \E K \in SUBSET (0..MaxKey) :
        /\ t_order' \in Perms(K)
        /\ \E txt \in [K -> Texts], st \in [K -> Statuses] :
            ocr_results' = [k \in K |-> [page |-> k + 1, text |-> txt[k], status |-> st[k],
                                         image_path |-> <<"image", k + 1>>]]
    /\ include_page_numbers' \in BOOLEAN
    /\ UNCHANGED <<t_keys, t_k, t_file, t_out, p_call, call_vars, batch_vars, retry_vars, converter_vars, app_vars>>

(* lines 83-91: open the file, write the header, sort the keys; an open    *)
(* that fails is caught at line 115                                        *)
txt_header ==
    /\ op = "save_txt" /\ t_pc = "open"
    /\ \E openOk \in BOOLEAN :
        IF openOk
        THEN /\ t_file' = <<Title, Bar50 \o <<"\n">>, TotalPages(len(ocr_results)),
                            Bar50 \o <<"\n", "\n">> >>
             /\ t_keys' = sorted(t_order)
             /\ t_k' = 1
             /\ t_pc' = IF t_order = <<>> THEN "footer" ELSE "page"
             /\ UNCHANGED t_out
        ELSE /\ t_out' = Return(FALSE)
             /\ t_pc' = "done"
             /\ UNCHANGED <<t_file, t_keys, t_k>>
    /\ UNCHANGED <<op, ocr_results, t_order, include_page_numbers, p_call,
                   call_vars, batch_vars, retry_vars, converter_vars, app_vars>>

(* lines 91-106: one iteration of the loop over the sorted keys *)
txt_page ==
    /\ op = "save_txt" /\ t_pc = "page"
    /\ LET i == t_keys[t_k]
           result == ocr_results[i]
           label == IF include_page_numbers
                    THEN <<PageLabel(result.page), Bar20 \o <<"\n">> >> ELSE <<>>
           body == IF result.status = "success" THEN <<result.text>>
                   ELSE <<ErrorPrefix \o result.text>>
           sep == IF not_last_page(i, ocr_results) THEN <<page_separator>> ELSE <<>>
       IN  t_file' = t_file \o label \o body \o sep
    /\ t_k' = t_k + 1
    /\ t_pc' = IF t_k + 1 <= Len(t_keys) THEN "page" ELSE "footer"
    /\ UNCHANGED <<op, ocr_results, t_order, include_page_numbers, t_keys, t_out, p_call,
                   call_vars, batch_vars, retry_vars, converter_vars, app_vars>>

(* lines 109-113 *)
txt_footer ==
    /\ op = "save_txt" /\ t_pc = "footer"
    /\ t_file' = t_file \o << <<"\n", "\n">> \o Bar50, Completed(len(ocr_results)) >>
    /\ t_out' = Return(TRUE)
    /\ t_pc' = "done"
    /\ UNCHANGED <<op, ocr_results, t_order, include_page_numbers, t_keys, t_k, p_call,
                   call_vars, batch_vars, retry_vars, converter_vars, app_vars>>

save_as_txt == txt_header \/ txt_page \/ txt_footer

----------------------------------------------------------------------------
(* pdf_converter.py: convert_pdf_to_images *)

(* A temporary directory is <<"dir", name, run>>; a file in the temporary *)
(* area is <<"file", name, run>>; a page image is a file in a directory.   *)
Dir(name, r) == <<"dir", name, r>>
File(name, r) == <<"file", name, r>>

DigitChar(d) == <<"0", "1", "2", "3", "4", "5", "6", "7", "8", "9">>[d + 1]

RECURSIVE Digits(_)
Digits(n) == IF n < 10 THEN <<DigitChar(n)>> ELSE Digits(n \div 10) \o <<DigitChar(n % 10)>>

RECURSIVE ZeroPad(_, _)
ZeroPad(ds, width) == IF Len(ds) >= width THEN ds ELSE ZeroPad(<<"0">> \o ds, width)

(* The variant below formats the page number without padding.              *)
image_filename_unpadded(page_num) == <<"page_">> \o Digits(page_num) \o <<".png">>

(* f"page_{page_num:04d}.png" *)
image_filename(page_num) == <<"page_">> \o ZeroPad(Digits(page_num), 4) \o <<".png">>

(* os.path.join(output_folder, image_filename) *)
path_join(folder, filename) == <<"file", folder[2], folder[3]>> \o filename

NoFolder == Dir("None", 0)

(* What the environment does to one conversion: whether the Poppler        *)
(* binaries answer, what convert_from_path makes of the PDF, how many page *)
(* images it returns, and which of them can be saved.                      *)
PdfOutcomes == {"ok", "syntax_error", "other_error"}
ConvEnvs ==
    {[poppler |-> FALSE, pdf |-> "ok", saved |-> <<>>]}
    \cup {[poppler |-> TRUE, pdf |-> e, saved |-> <<>>] : e \in PdfOutcomes \ {"ok"}}
    \cup {[poppler |-> TRUE, pdf |-> "ok", saved |-> sv] : sv \in SeqsUpTo(BOOLEAN, MaxPdfPages)}

RECURSIVE saved_paths(_, _, _, _)
saved_paths(folder, first, saved, i) ==
    IF i >= Len(saved) THEN <<>>
    ELSE (IF saved[i + 1] THEN <<path_join(folder, image_filename(first + i))>> ELSE <<>>)
         \o saved_paths(folder, first, saved, i + 1)

Range(q) == {q[k] : k \in DOMAIN q}

ConvOutcome(out, files) == [out |-> out, files |-> files]

(* The variant below makes the output folder before it checks Poppler.    *)
convert_pdf_to_images_mkdir_first(files, output_folder, first_page, env) ==
    LET folder == IF output_folder = NoFolder THEN Dir("mkdtemp_converter", 0) ELSE output_folder
        made == files \cup {folder}
    IN  IF ~env.poppler
        THEN ConvOutcome(Raise(<<"PDFInfoNotInstalledError">>), made)
        ELSE IF env.pdf = "syntax_error"
        THEN ConvOutcome(Raise(<<"ValueError">>), made)
        ELSE IF env.pdf = "other_error"
        THEN ConvOutcome(Raise(<<"Exception">>), made)
        ELSE LET first == IF first_page = 0 THEN 1 ELSE first_page
                 paths == saved_paths(folder, first, env.saved, 0)
             IN  ConvOutcome(Return(paths), made \cup Range(paths))

(* lines 153-221.  first_page = 0 stands for None (first_page or 1).       *)
(* The result is the outcome of the call and the files that exist after.   *)
convert_pdf_to_images(files, output_folder, first_page, env) ==
    IF ~env.poppler
    THEN ConvOutcome(Raise(<<"PDFInfoNotInstalledError">>), files)
    ELSE LET folder == IF output_folder = NoFolder THEN Dir("mkdtemp_converter", 0)
                       ELSE output_folder
             made == files \cup {folder}
         IN  IF env.pdf = "syntax_error"
             THEN ConvOutcome(Raise(<<"ValueError">>), made)
             ELSE IF env.pdf = "other_error"
             THEN ConvOutcome(Raise(<<"Exception">>), made)
             ELSE LET first == IF first_page = 0 THEN 1 ELSE first_page
                      paths == saved_paths(folder, first, env.saved, 0)
                  IN  ConvOutcome(Return(paths), made \cup Range(paths))

CallRecord(files, output_folder, first_page, env, res) ==
    [called |-> TRUE, output_folder |-> output_folder, first_page |-> first_page, env |-> env,
     before |-> files, out |-> res.out, after |-> res.files]

NoCall ==
    [called |-> FALSE, output_folder |-> NoFolder, first_page |-> 0,
     env |-> [poppler |-> FALSE, pdf |-> "ok", saved |-> <<>>],
     before |-> {}, out |-> None, after |-> {}]

(* convert_pdf_to_images called on its own, with or without output_folder *)
convert_call ==
    /\ op = "idle"
    /\ op' = "convert"
    /\ \E folder \in {NoFolder, Dir("output_folder", 0)}, first_page \in 0..2, env \in ConvEnvs :
        LET res == convert_pdf_to_images(fs, folder, first_page, env)
        IN  /\ c_call' = CallRecord(fs, folder, first_page, env, res)
            /\ fs' = res.files
    /\ UNCHANGED <<o_call, call_vars, batch_vars, retry_vars, file_vars, app_vars>>

(* lines 255-268 *)
cleanup_temp_files(files, paths) == files \ Range(paths)

----------------------------------------------------------------------------
(* pdf_converter.py: optimize_image_for_ocr *)

MinSide == 1000

(* An image is its size, its mode and the operations applied to it *)
Img(size, mode, applied) == [size |-> size, mode |-> mode, applied |-> applied]

Sizes == {<<500, 2000>>, <<2000, 800>>, <<1000, 1000>>, <<1240, 1754>>}
Modes == {"RGB", "RGBA", "LA", "L"}
Steps == {"resize", "flatten", "convert", "contrast", "sharpness"}

Min(a, b) == IF a <= b THEN a ELSE b

(* lines 98-102: scale_factor = max(1000 / width, 1000 / height) is 1000   *)
(* over the shorter side; int(side * scale_factor)                         *)
resize(image) ==
    LET width == image.size[1]
        height == image.size[2]
        shorter == Min(width, height)
    IN  Img(<<(width * MinSide) \div shorter, (height * MinSide) \div shorter>>,
            image.mode, Append(image.applied, "resize"))

(* lines 105-113 *)
to_rgb(image, step) == Img(image.size, "RGB", Append(image.applied, step))

(* lines 116-121 *)
enhance(image, step) == Img(image.size, image.mode, Append(image.applied, step))

OptOutcome(failed, image) == [raised |-> FALSE, failed |-> failed, value |-> image]

(* lines 96-128: `image` is rebound after each step, and the except clause *)
(* returns whatever `image` is bound to when the step fails.               *)
optimize_image_for_ocr(image, fails_at) ==
    LET small == image.size[1] < MinSide \/ image.size[2] < MinSide
        image1 == IF small THEN resize(image) ELSE image
        rgb_step == IF image1.mode \in {"RGBA", "LA"} THEN "flatten"
                    ELSE IF image1.mode # "RGB" THEN "convert" ELSE "none"
        image2 == IF rgb_step # "none" THEN to_rgb(image1, rgb_step) ELSE image1
        image3 == enhance(image2, "contrast")
        image4 == enhance(image3, "sharpness")
    IN  IF small /\ fails_at = "resize" THEN OptOutcome(TRUE, image)
        ELSE IF rgb_step # "none" /\ fails_at = rgb_step THEN OptOutcome(TRUE, image1)
        ELSE IF fails_at = "contrast" THEN OptOutcome(TRUE, image2)
        ELSE IF fails_at = "sharpness" THEN OptOutcome(TRUE, image3)
        ELSE OptOutcome(FALSE, image4)

NoImage == Img(<<MinSide, MinSide>>, "RGB", <<>>)
NoOptCall == [called |-> FALSE, image |-> NoImage, fails_at |-> "none",
              out |-> OptOutcome(FALSE, NoImage)]

(* optimize_image_for_ocr called on one page image *)
optimize_call ==
    /\ op = "idle"
    /\ op' = "optimize"
    /\ \E size \in Sizes, mode \in Modes, fails_at \in Steps \cup {"none"} :
        LET image == Img(size, mode, <<>>)
        IN  o_call' = [called |-> TRUE, image |-> image, fails_at |-> fails_at,
                       out |-> optimize_image_for_ocr(image, fails_at)]
    /\ UNCHANGED <<conv_vars, call_vars, batch_vars, retry_vars, file_vars, app_vars>>

----------------------------------------------------------------------------
(* file_manager.py: save_as_pdf_reportlab *)

(* lines 258-263: escape markup characters, turn line breaks into <br/> *)
escape_markup(text) ==
    [k \in DOMAIN text |->
        CASE text[k] = "&" -> "&amp;"
          [] text[k] = "<" -> "&lt;"
          [] text[k] = ">" -> "&gt;"
          [] text[k] = "\n" -> "<br/>"
          [] OTHER -> text[k]]

RECURSIVE story_from(_, _, _)
story_from(d, keys, page_numbers) ==
    IF keys = <<>> THEN <<>>
    ELSE LET result == d[Head(keys)]
             text_content == IF result.status = "success" THEN result.text
                             ELSE ErrorPrefix \o result.text
         IN  (IF page_numbers THEN PageLabel(result.page) ELSE <<>>)
             \o escape_markup(text_content) \o <<"Spacer">>
             \o story_from(d, Tail(keys), page_numbers)

(* What doc.build can do: write the document, fail before anything is      *)
(* written, or fail after part of the file is written.                     *)
BuildOutcomes == {"ok", "fails_unwritten", "fails_midway"}

(* lines 211-274: the value returned, and what the output file holds after *)
save_as_pdf_reportlab(d, keys_inserted, page_numbers, build) ==
    IF build = "ok"
    THEN [returned |-> TRUE,
          file |-> <<"%PDF">> \o Title \o story_from(d, sorted(keys_inserted), page_numbers)]
    ELSE [returned |-> FALSE,
          file |-> IF build = "fails_midway" THEN <<"%PDF", "truncated">> ELSE <<>>]

----------------------------------------------------------------------------
(* file_manager.py: save_as_pdf_fpdf *)

(* The text T2 stands for a text with characters outside ASCII (Hangul);   *)
(* the page label of line 166 is such a text too.                          *)
NonAscii == {"T2", "PAGE "}

(* line.encode('ascii', 'ignore').decode('ascii') *)
ascii_ignore(text) == SelectSeq(text, LAMBDA c : c \notin NonAscii)

HasNonAscii(text) == \E k \in DOMAIN text : text[k] \in NonAscii

(* lines 178-183: a core font cannot encode the line, the ASCII part of it *)
(* is written instead                                                      *)
multi_cell(font_name, line) ==
    IF font_name = "Arial" /\ HasNonAscii(line) THEN ascii_ignore(line) ELSE line

RECURSIVE fpdf_pages(_, _, _, _)
fpdf_pages(d, keys, page_numbers, font_name) ==
    IF keys = <<>> THEN <<>>
    ELSE LET result == d[Head(keys)]
             text_content == IF result.status = "success" THEN result.text
                             ELSE ErrorPrefix \o result.text
         IN  <<"add_page">>
             \o (IF page_numbers THEN PageLabel(result.page) ELSE <<>>)
             \o multi_cell(font_name, text_content)
             \o fpdf_pages(d, Tail(keys), page_numbers, font_name)

(* What the environment does to one call: whether the fpdf import worked,  *)
(* whether add_font finds the DejaVu font file, whether pdf.output writes  *)
(* the file, and what doc.build of the other backend does.                 *)
PdfEnvs ==
    {[fpdf_available |-> FALSE, font_loads |-> FALSE, output |-> "ok", build |-> b] :
        b \in BuildOutcomes}
    \cup {[fpdf_available |-> TRUE, font_loads |-> f, output |-> o, build |-> "ok"] :
            f \in BOOLEAN, o \in {"ok", "fails"}}

PdfOutcome(backend, font_name, returned, file) ==
    [backend |-> backend, font |-> font_name, returned |-> returned, file |-> file]

(* lines 135-192: the backend that handled the request, the font it used,  *)
(* the value returned and what the output file holds after.  With the core *)
(* font the Hangul page label cannot be encoded: the cell call, or the     *)
(* output call, raises and the outer except clause returns False.          *)
save_as_pdf_fpdf(d, keys_inserted, page_numbers, env) ==
    IF ~env.fpdf_available
    THEN LET r == save_as_pdf_reportlab(d, keys_inserted, page_numbers, env.build)
         IN  PdfOutcome("reportlab", "none", r.returned, r.file)
    ELSE LET font_name == IF env.font_loads THEN "DejaVu" ELSE "Arial"
             label_fails == font_name = "Arial" /\ page_numbers /\ keys_inserted # <<>>
         IN  IF env.output = "fails" \/ label_fails
             THEN PdfOutcome("fpdf", font_name, FALSE, <<>>)
             ELSE PdfOutcome("fpdf", font_name, TRUE,
                             <<"%PDF">> \o fpdf_pages(d, sorted(keys_inserted), page_numbers,
                                                      font_name))

NoPdfCall ==
    [called |-> FALSE, ocr_results |-> EmptyDict, order |-> <<>>, include_page_numbers |-> FALSE,
     env |-> [fpdf_available |-> FALSE, font_loads |-> FALSE, output |-> "ok", build |-> "ok"],
     out |-> PdfOutcome("none", "none", FALSE, <<>>)]

(* save_as_pdf_fpdf called on its own *)
pdf_call ==
    /\ op = "idle"
    /\ op' = "save_pdf"
    /\ \E K \in SUBSET (0..MaxKey), page_numbers \in BOOLEAN, env \in PdfEnvs :
        \E order \in Perms(K), txt \in [K -> Texts], st \in [K -> Statuses] :
            LET d == [k \in K |-> [page |-> k + 1, text |-> txt[k], status |-> st[k],
                                   image_path |-> <<"image", k + 1>>]]
            IN  p_call' = [called |-> TRUE, ocr_results |-> d, order |-> order,
                           include_page_numbers |-> page_numbers, env |-> env,
                           out |-> save_as_pdf_fpdf(d, order, page_numbers, env)]
    /\ UNCHANGED <<txt_vars, call_vars, batch_vars, retry_vars, converter_vars, app_vars>>

----------------------------------------------------------------------------
(* streamlit_app.py *)

UploadedName == <<"uploaded">>

RECURSIVE inline_pages(_, _, _)
inline_pages(d, keys, page_numbers) ==
    IF keys = <<>> THEN <<>>
    ELSE LET result == d[Head(keys)]
         IN  (IF page_numbers THEN PageLabel(result.page) \o Bar20 \o <<"\n">> ELSE <<>>)
             \o result.text \o <<"\n", "\n">>
             \o inline_pages(d, Tail(keys), page_numbers)

(* lines 291-302: the text result built by process_pdf itself *)
inline_result_text(d, keys_inserted, page_numbers) ==
    Title \o Bar50 \o <<"\n">> \o TotalPages(len(d)) \o Bar50 \o <<"\n", "\n">>
    \o inline_pages(d, sorted(keys_inserted), page_numbers)

(* what a document read back from the output file is *)
KindOf(content) ==
    IF content = <<>> THEN "empty"
    ELSE IF content[Len(content)] = "truncated" THEN "truncated"
    ELSE "whole"

SessionResult(content, extension) ==
    [kind |-> KindOf(content), filename |-> UploadedName \o <<"_ocr", extension>>,
     of_run |-> run]

NoResult == [kind |-> "none", filename |-> <<>>, of_run |-> 0]

upload_copy == File("upload_copy", run)
temp_folder == Dir("mkdtemp", run)
tmp_output == File("tmp_output", run)

(* lines 145-148: the start button is shown while no run is in progress *)
main_click ==
    /\ \/ op = "idle"
       \/ op = "app" /\ pp_pc = "returned"
    /\ ~processing
    /\ run < MaxRuns
    /\ op' = "app"
    /\ processing' = TRUE
    /\ pp_pc' = "script"
    /\ UNCHANGED <<session_results, run, pp_exit, output_format, pp_page_numbers, pp_created,
                   pp_image_paths, pp_ocr_results, pp_i, pp_saved, pp_content, pp_errors,
                   converter_vars, call_vars, batch_vars, retry_vars, file_vars>>

(* lines 153-167: a run of the script calls process_pdf while processing is set *)
main_process ==
    /\ op = "app" /\ pp_pc \in {"script", "returned"}
    /\ processing
    /\ run < MaxRuns
    /\ run' = run + 1
    /\ pp_pc' = "tempfile"
    /\ pp_exit' = "none"
    /\ output_format' \in {"txt", "pdf"}
    /\ pp_page_numbers' \in BOOLEAN
    /\ pp_created' = {}
    /\ pp_image_paths' = <<>>
    /\ pp_ocr_results' = EmptyDict
    /\ pp_i' = 0
    /\ pp_saved' = "none"
    /\ pp_content' = <<>>
    /\ pp_errors' = <<>>
    /\ c_call' = NoCall
    /\ UNCHANGED <<op, processing, session_results, fs, o_call,
                   call_vars, batch_vars, retry_vars, file_vars>>

(* lines 221-223: the uploaded PDF is copied to a temporary file *)
pp_tempfile ==
    /\ op = "app" /\ pp_pc = "tempfile"
    /\ fs' = fs \cup {upload_copy}
    /\ pp_created' = pp_created \cup {upload_copy}
    /\ pp_pc' = "check"
    /\ UNCHANGED <<op, processing, session_results, run, pp_exit, output_format,
                   pp_page_numbers, pp_image_paths, pp_ocr_results, pp_i, pp_saved, pp_content,
                   pp_errors, c_call, o_call, call_vars, batch_vars, retry_vars, file_vars>>

(* lines 226-241: without Poppler the run shows an error and returns *)
pp_check ==
    /\ op = "app" /\ pp_pc = "check"
    /\ \E installed \in BOOLEAN :
        IF installed
        THEN /\ pp_pc' = "convert"
             /\ UNCHANGED <<pp_exit, pp_errors>>
        ELSE /\ pp_errors' = Append(pp_errors, <<"poppler_not_installed">>)
             /\ pp_exit' = "no_poppler"
             /\ pp_pc' = "returned"
    /\ UNCHANGED <<op, processing, session_results, run, output_format, pp_page_numbers,
                   pp_created, pp_image_paths, pp_ocr_results, pp_i, pp_saved, pp_content,
                   converter_vars, call_vars, batch_vars, retry_vars, file_vars>>

(* lines 333-335: the except clause of process_pdf *)
pp_except(e) ==
    /\ pp_errors' = Append(pp_errors, <<"error_while_processing">> \o e)
    /\ processing' = FALSE
    /\ pp_exit' = "exception"
    /\ pp_pc' = "returned"

(* lines 250-261: the working directory is made and the PDF rasterized *)
pp_convert ==
    /\ op = "app" /\ pp_pc = "convert"
    /\ \E env \in ConvEnvs :
        LET before == fs \cup {temp_folder}
            res == convert_pdf_to_images(before, temp_folder, 0, env)
        IN  /\ c_call' = CallRecord(before, temp_folder, 0, env, res)
            /\ fs' = res.files
            /\ pp_created' = pp_created \cup {temp_folder} \cup (res.files \ before)
            /\ IF res.out.raised
               THEN /\ pp_except(res.out.value)
                    /\ UNCHANGED pp_image_paths
               ELSE IF res.out.value = <<>>
               THEN /\ pp_errors' = Append(pp_errors, <<"pdf_conversion_failed">>)
                    /\ pp_exit' = "empty"
                    /\ pp_pc' = "returned"
                    /\ UNCHANGED <<processing, pp_image_paths>>
               ELSE /\ pp_image_paths' = res.out.value
                    /\ pp_pc' = "ocr"
                    /\ UNCHANGED <<processing, pp_exit, pp_errors>>
    /\ UNCHANGED <<op, session_results, run, output_format, pp_page_numbers, pp_ocr_results,
                   pp_i, pp_saved, pp_content, o_call, call_vars, batch_vars, retry_vars, file_vars>>

(* The variant below numbers the page by its index.                        *)
pp_ocr_page_is_index ==
    /\ op \in {"app", "both"} /\ pp_pc = "ocr"
    /\ \E env \in PageOutcomes(pp_i) :
        LET r == extract_text_from_image(env.load, env.resp)
        IN  IF r.raised
            THEN /\ pp_except(r.value)
                 /\ UNCHANGED <<pp_ocr_results, pp_i>>
            ELSE /\ pp_ocr_results' =
                        Store(pp_ocr_results, pp_i,
                              [page |-> pp_i, text |-> r.value, status |-> "success",
                               image_path |-> pp_image_paths[pp_i + 1]])
                 /\ pp_i' = pp_i + 1
                 /\ pp_pc' = IF pp_i + 1 < Len(pp_image_paths) THEN "ocr" ELSE "save"
                 /\ UNCHANGED <<processing, pp_exit, pp_errors>>
    /\ UNCHANGED <<op, session_results, run, output_format, pp_page_numbers, pp_created,
                   pp_image_paths, pp_saved, pp_content, converter_vars,
                   call_vars, batch_vars, retry_vars, file_vars>>

(* lines 269-283: one iteration of the OCR loop *)
pp_ocr ==
    /\ op \in {"app", "both"} /\ pp_pc = "ocr"
    /\ \E env \in PageOutcomes(pp_i) :
        LET r == extract_text_from_image(env.load, env.resp)
        IN  IF r.raised
            THEN /\ pp_except(r.value)
                 /\ UNCHANGED <<pp_ocr_results, pp_i>>
            ELSE /\ pp_ocr_results' =
                        Store(pp_ocr_results, pp_i,
                              [page |-> pp_i + 1, text |-> r.value, status |-> "success",
                               image_path |-> pp_image_paths[pp_i + 1]])
                 /\ pp_i' = pp_i + 1
                 /\ pp_pc' = IF pp_i + 1 < Len(pp_image_paths) THEN "ocr" ELSE "save"
                 /\ UNCHANGED <<processing, pp_exit, pp_errors>>
    /\ UNCHANGED <<op, session_results, run, output_format, pp_page_numbers, pp_created,
                   pp_image_paths, pp_saved, pp_content, converter_vars,
                   call_vars, batch_vars, retry_vars, file_vars>>

(* extract_text_batch, without callback and with a delay that can be       *)
(* slept, and then the inline loop of process_pdf, run on one image list:  *)
(* the model call for an image does the same in both.  The list is as long *)
(* as a list the rasterizer returns.                                       *)
both_start ==
    /\ op = "idle"
    /\ op' = "both"
    /\ \E n \in 1..MaxPdfPages, d \in {t \in Delays : t >= 0} :
        /\ image_paths' = [k \in 1..n |-> <<"image", k>>]
        /\ x_script' \in [1..n -> CallOutcomes]
        /\ delay' = d
        /\ total' = n
    /\ progress_callback' = FALSE
    /\ results' = EmptyDict
    /\ b_i' = 0
    /\ b_pc' = "call"
    /\ UNCHANGED <<b_exc, b_calls, b_events, b_returned, single_vars, retry_vars, file_vars,
                   converter_vars, app_vars>>

(* lines 265-266: the inline loop starts on the list the batch was given *)
both_inline_start ==
    /\ op = "both" /\ b_pc = "done" /\ pp_pc = "idle"
    /\ pp_image_paths' = image_paths
    /\ pp_ocr_results' = EmptyDict
    /\ pp_i' = 0
    /\ pp_pc' = "ocr"
    /\ UNCHANGED <<op, call_vars, batch_vars, retry_vars, file_vars, converter_vars,
                   processing, session_results, run, pp_exit, output_format,
                   pp_page_numbers, pp_created, pp_saved, pp_content, pp_errors>>

keys_0_to(n) == [k \in 1..n |-> k - 1]

(* lines 289-321: the result is put in the session; the PDF is written to  *)
(* a temporary file, read back and the file removed                        *)
pp_save ==
    /\ op = "app" /\ pp_pc = "save"
    /\ IF output_format = "txt"
       THEN /\ pp_content' = inline_result_text(pp_ocr_results, keys_0_to(pp_i),
                                                pp_page_numbers)
            /\ session_results' = SessionResult(pp_content', ".txt")
            /\ UNCHANGED <<pp_saved, pp_created>>
       ELSE \E build \in BuildOutcomes :
            LET saved == save_as_pdf_reportlab(pp_ocr_results, keys_0_to(pp_i),
                                               pp_page_numbers, build)
            IN  /\ pp_created' = pp_created \cup {tmp_output}
                /\ pp_saved' = IF saved.returned THEN "true" ELSE "false"
                /\ pp_content' = saved.file
                /\ session_results' = SessionResult(saved.file, ".pdf")
    /\ pp_pc' = "cleanup"
    /\ UNCHANGED <<op, processing, run, pp_exit, output_format, pp_page_numbers,
                   pp_image_paths, pp_ocr_results, pp_i, pp_errors, converter_vars,
                   call_vars, batch_vars, retry_vars, file_vars>>

(* lines 323-331: the page images and the copy are removed, the flag is    *)
(* cleared and the script is rerun                                         *)
pp_cleanup ==
    /\ op = "app" /\ pp_pc = "cleanup"
    /\ fs' = cleanup_temp_files(fs, pp_image_paths) \ {upload_copy}
    /\ processing' = FALSE
    /\ pp_exit' = "success"
    /\ pp_pc' = "returned"
    /\ UNCHANGED <<op, session_results, run, output_format, pp_page_numbers, pp_created,
                   pp_image_paths, pp_ocr_results, pp_i, pp_saved, pp_content, pp_errors,
                   c_call, o_call, call_vars, batch_vars, retry_vars, file_vars>>

process_pdf == pp_tempfile \/ pp_check \/ pp_convert \/ pp_ocr \/ pp_save \/ pp_cleanup

----------------------------------------------------------------------------

Init ==
    /\ op = "idle"
    /\ s_in = None /\ s_out = None /\ x_script = <<>>
    /\ b_pc = "idle" /\ image_paths = <<>> /\ delay = 0 /\ progress_callback = FALSE
    /\ total = 0 /\ b_i = 0 /\ results = EmptyDict /\ b_exc = <<>> /\ b_calls = <<>>
    /\ b_events = <<>> /\ b_returned = None
    /\ r_pc = "idle" /\ max_retries = 0 /\ attempt = 0 /\ r_script = <<>> /\ r_events = <<>>
    /\ r_out = None
    /\ t_pc = "idle" /\ ocr_results = EmptyDict /\ t_order = <<>> /\ include_page_numbers = FALSE
    /\ t_keys = <<>> /\ t_k = 0 /\ t_file = <<>> /\ t_out = None
    /\ p_call = NoPdfCall
    /\ fs = {} /\ c_call = NoCall /\ o_call = NoOptCall
    /\ processing = FALSE /\ session_results = NoResult /\ run = 0
    /\ pp_pc = "idle" /\ pp_exit = "none" /\ output_format = "txt" /\ pp_page_numbers = FALSE
    /\ pp_created = {} /\ pp_image_paths = <<>> /\ pp_ocr_results = EmptyDict /\ pp_i = 0
    /\ pp_saved = "none" /\ pp_content = <<>> /\ pp_errors = <<>>

Next ==
    \/ single_call
    \/ batch_start
    \/ batch_call
    \/ batch_callback
    \/ batch_sleep
    \/ batch_except
    \/ batch_return
    \/ retry_start
    \/ retry_attempt
    \/ retry_fall_off
    \/ txt_start
    \/ txt_header
    \/ txt_page
    \/ txt_footer
    \/ pdf_call
    \/ convert_call
    \/ optimize_call
    \/ main_click
    \/ main_process
    \/ pp_tempfile
    \/ pp_check
    \/ pp_convert
    \/ pp_ocr
    \/ pp_save
    \/ pp_cleanup
    \/ both_start
    \/ both_inline_start

Spec == Init /\ [][Next]_vars

----------------------------------------------------------------------------
(* Properties of extract_text_batch *)

BatchDone == op = "batch" /\ b_pc = "done"

(* C1: for every list of N image paths and every pattern of failures the   *)
(* batch can always take its next step until it returns, it returns only   *)
(* after the last page, and the mapping returned has exactly the keys      *)
(* 0..N-1, entry i with page = i+1 and status success or error.            *)
C1_BatchCoversEveryPage ==
    op = "batch" =>
        /\ b_pc # "done" => ENABLED extract_text_batch
        /\ b_i <= total
        /\ b_pc \in {"return", "done"} => b_i = total
        /\ b_pc = "done" =>
            /\ ~b_returned.raised
            /\ DOMAIN b_returned.value = 0..(total - 1)
            /\ \A i \in 0..(total - 1) :
                /\ b_returned.value[i].page = i + 1
                /\ b_returned.value[i].status \in {"success", "error"}

C1_Witness ==
    /\ BatchDone /\ total >= 2
    /\ \E i, j \in DOMAIN b_returned.value :
        /\ i < j
        /\ b_returned.value[i].status = "error"
        /\ b_returned.value[j].status = "success"

(* C2: in the batch, a page whose model call failed has status error, and  *)
(* a page has status success only when its model call succeeded.           *)
C2_FailedCallRecordedAsError ==
    BatchDone =>
        \A i \in 0..(total - 1) :
            /\ b_calls[i + 1] = "failed" => b_returned.value[i].status = "error"
            /\ b_returned.value[i].status = "success" => b_calls[i + 1] = "ok"

----------------------------------------------------------------------------
(* Properties of extract_with_retry *)

RetryDone == op = "retry" /\ r_pc = "done"

Call == <<"call">>
Sleep(t) == <<"sleep", t>>

(* the text a successful model call yields *)
TextOf(env) == IF env.resp.content = <<>> THEN NoTextSentinel ELSE env.resp.content[1]

(* C3: with max_retries = 3, when the model call fails on attempts 1 and 2 *)
(* and succeeds on attempt 3, the text of attempt 3 is returned after      *)
(* call, sleep 1, call, sleep 2, call.                                     *)
C3_ThirdAttemptSucceeds ==
    ( /\ RetryDone /\ max_retries = 3
      /\ ModelCallFailed(r_script[1]) /\ ModelCallFailed(r_script[2])
      /\ ~ModelCallFailed(r_script[3]) )
    => /\ r_out = Return(TextOf(r_script[3]))
       /\ r_events = <<Call, Sleep(1), Call, Sleep(2), Call>>

(* C4: when the model call fails on every attempt, max_retries calls are   *)
(* made, 2^k seconds are slept after failed attempt k for k up to          *)
(* max_retries-2, and the last failure is raised to the caller.            *)
C4_ExhaustionReraises ==
    ( /\ RetryDone /\ max_retries >= 1
      /\ \A k \in 1..max_retries : ModelCallFailed(r_script[k]) )
    => /\ r_out.raised
       /\ Len(SelectSeq(r_events, LAMBDA e : e = Call)) = max_retries
       /\ SelectSeq(r_events, LAMBDA e : e # Call) = [k \in 1..(max_retries - 1) |-> Sleep(2 ^ (k - 1))]

----------------------------------------------------------------------------
(* Properties of extract_text_from_image *)

IsErrorMarker(v) == Len(v) >= 1 /\ v[1] = "ERROR_MARKER"

(* C5: the single-shot call never raises: an unreadable image or a failed  *)
(* request gives an error-marker string, a response without content gives  *)
(* the fixed sentinel, and otherwise the first text segment is returned;   *)
(* so no caller ever sees an exception from it.                            *)
C5_SingleShotNeverRaises ==
    /\ op = "single" =>
        /\ ~s_out.raised
        /\ ModelCallFailed(s_in) => IsErrorMarker(s_out.value)
        /\ (~ModelCallFailed(s_in) /\ s_in.resp.content = <<>>) => s_out.value = NoTextSentinel
        /\ (~ModelCallFailed(s_in) /\ s_in.resp.content # <<>>) => s_out.value = Head(s_in.resp.content)
    /\ (op = "batch" /\ b_pc = "except") => b_exc \in {<<"callback_error">>, <<"sleep_error">>}
    /\ RetryDone => ~r_out.raised

C5_Witness ==
    /\ op = "single"
    /\ s_in.load = "ok" /\ s_in.resp.raised
    /\ s_out = Return(<<"ERROR_MARKER", "api_error">>)

----------------------------------------------------------------------------
(* Properties of save_as_txt *)

TxtWritten == op = "save_txt" /\ t_pc = "done" /\ t_out = Return(TRUE)

IsErrorBody(c) == Len(c) > 1 /\ c[1] = ErrorPrefix[1]
IsBody(c) == c \in Texts \/ IsErrorBody(c)
IsLabel(c) == Len(c) = 3 /\ c[1] = "PAGE "
IsSeparator(c) == Len(c) = 3 /\ c[1] = "\n" /\ c = page_separator
TextIn(c) == IF IsErrorBody(c) THEN Tail(c) ELSE c

(* the key with r-1 smaller keys *)
KeyOfRank(d, r) == CHOOSE k \in DOMAIN d : Cardinality({j \in DOMAIN d : j < k}) = r - 1

Bodies == SelectSeq(t_file, IsBody)

(* C9: the document written holds each page's text exactly once, in        *)
(* ascending key order whatever the insertion order, and the header and    *)
(* the footer both declare as many pages as the mapping has entries.       *)
C9_TextsInAscendingOrder ==
    TxtWritten =>
        /\ Len(Bodies) = len(ocr_results)
        /\ \A r \in 1..Len(Bodies) : TextIn(Bodies[r]) = ocr_results[KeyOfRank(ocr_results, r)].text
        /\ t_file[3] = TotalPages(len(ocr_results))
        /\ t_file[Len(t_file)] = Completed(len(ocr_results))

C9_Witness ==
    /\ TxtWritten
    /\ t_order = <<2, 0, 1>>
    /\ ocr_results[0].text # ocr_results[1].text
    /\ ocr_results[1].status = "error"

(* C10: the page separator is written exactly between consecutive pages:   *)
(* N-1 times for N >= 1 pages, each time after a page's text and before    *)
(* the next page, never before the footer; an empty mapping is written     *)
(* with a header declaring 0 pages and no separator.                       *)
C10_SeparatorsBetweenPages ==
    TxtWritten =>
        LET n == len(ocr_results)
            seps == {p \in 1..Len(t_file) : IsSeparator(t_file[p])}
        IN  /\ Cardinality(seps) = IF n = 0 THEN 0 ELSE n - 1
            /\ \A p \in seps :
                /\ p > 1 /\ IsBody(t_file[p - 1])
                /\ p < Len(t_file)
                /\ IF include_page_numbers THEN IsLabel(t_file[p + 1]) ELSE IsBody(t_file[p + 1])
            /\ n = 0 => t_file[3] = TotalPages(0)

C10_Witness ==
    /\ TxtWritten
    /\ len(ocr_results) = 3
    /\ ~include_page_numbers
    /\ Cardinality({p \in 1..Len(t_file) : IsSeparator(t_file[p])}) = 2

C10_WitnessEmpty ==
    /\ TxtWritten
    /\ ocr_results = EmptyDict

----------------------------------------------------------------------------
(* Properties of process_pdf and convert_pdf_to_images *)

Returned == op = "app" /\ pp_pc = "returned"

(* C6: every temporary file or directory a run created is deleted by the   *)
(* time process_pdf returns, on every exit path.                           *)
C6_TemporariesDeletedAtReturn ==
    Returned => pp_created \cap fs = {}

BinaryAbsentAtCall == c_call.called /\ ~c_call.env.poppler
RasterizerUnavailable == Raise(<<"PDFInfoNotInstalledError">>)

(* C7: when the conversion binary is absent, rasterization fails with the  *)
(* rasterizer-unavailable error and in no state of such a run does a       *)
(* temporary file or directory of the run exist.                           *)
C7_NoTemporaryWhenBinaryAbsent ==
    /\ BinaryAbsentAtCall => c_call.out = RasterizerUnavailable
    /\ (op = "convert" /\ BinaryAbsentAtCall) => fs = {}
    /\ (op = "app" /\ (pp_exit = "no_poppler" \/ BinaryAbsentAtCall)) => pp_created = {}

(* C7 as amended: with the binary absent convert_pdf_to_images raises the  *)
(* rasterizer-unavailable error and has itself created no directory and no *)
(* file; a run of process_pdf that finds the binary absent has made no     *)
(* working directory and no page image, only the copy of the upload.       *)
C7_ConverterCreatesNothingWhenBinaryAbsent ==
    /\ BinaryAbsentAtCall =>
        /\ c_call.out = RasterizerUnavailable
        /\ c_call.after = c_call.before
    /\ (op = "app" /\ pp_exit = "no_poppler") =>
        /\ ~c_call.called
        /\ pp_created = {upload_copy}

C7_Witness ==
    /\ op = "convert"
    /\ BinaryAbsentAtCall
    /\ c_call.output_folder = NoFolder
    /\ c_call.out.raised

(* C8: when save_as_pdf_reportlab returns False the failure is shown and   *)
(* the session results are not set by this run.                            *)
C8_RenderFailureNotOffered ==
    (op = "app" /\ pp_saved = "false") =>
        /\ session_results.of_run # run
        /\ pp_errors # <<>>

----------------------------------------------------------------------------
(* Properties of the paths convert_pdf_to_images returns *)

Converted == c_call.called /\ c_call.env.poppler /\ c_call.env.pdf = "ok"

(* the folder the page images are written to *)
FolderOfCall ==
    IF c_call.output_folder = NoFolder THEN Dir("mkdtemp_converter", 0) ELSE c_call.output_folder

(* convert_from_path returns one image per page of the requested range:    *)
(* the range is first..last with as many pages as images were returned     *)
RequestedFirst == IF c_call.first_page = 0 THEN 1 ELSE c_call.first_page
RequestedPages == {RequestedFirst + k : k \in 0..(Len(c_call.env.saved) - 1)}

DigitValue(c) == CHOOSE d \in 0..9 : DigitChar(d) = c

RECURSIVE NumberOf(_)
NumberOf(ds) ==
    IF ds = <<>> THEN 0 ELSE 10 * NumberOf(SubSeq(ds, 1, Len(ds) - 1)) + DigitValue(ds[Len(ds)])

(* a path is <<"file", folder name, folder run, "page_", digits.., ".png">> *)
PageDigits(path) == SubSeq(path, 5, Len(path) - 1)
IsPagePath(path) ==
    /\ Len(path) = 9
    /\ SubSeq(path, 1, 4) = <<"file", FolderOfCall[2], FolderOfCall[3], "page_">>
    /\ path[9] = ".png"
    /\ \A k \in 5..8 : \E d \in 0..9 : path[k] = DigitChar(d)
PageNumberOf(path) == NumberOf(PageDigits(path))

WellNamedAndIncreasing(paths) ==
    /\ \A k \in 1..Len(paths) : IsPagePath(paths[k])
    /\ \A k, l \in 1..Len(paths) : k < l => PageNumberOf(paths[k]) < PageNumberOf(paths[l])

(* C11: for a valid PDF and a requested range first..last, the paths       *)
(* returned are exactly one per requested page, in page order, named       *)
(* page_<4 digits> with strictly increasing numbers that start at first    *)
(* (1 when no range is given).                                             *)
C11_OnePathPerRequestedPage ==
    Converted =>
        LET paths == c_call.out.value
        IN  /\ ~c_call.out.raised
            /\ WellNamedAndIncreasing(paths)
            /\ Len(paths) = Cardinality(RequestedPages)
            /\ \A k \in 1..Len(paths) : PageNumberOf(paths[k]) = RequestedFirst + k - 1

(* C11 as amended: the paths returned are one per requested page whose     *)
(* image could be written, in page order, each named page_<4 digits> with  *)
(* the number of its page (first + position in the range), so the numbers  *)
(* are strictly increasing and none is below first; when every page is     *)
(* written there is exactly one path per requested page, starting at first.*)
C11_OnePathPerWrittenPage ==
    Converted =>
        LET paths == c_call.out.value
            written == {RequestedFirst + k - 1 : k \in {j \in 1..Len(c_call.env.saved) : c_call.env.saved[j]}}
        IN  /\ ~c_call.out.raised
            /\ WellNamedAndIncreasing(paths)
            /\ {PageNumberOf(paths[k]) : k \in 1..Len(paths)} = written
            /\ Len(paths) = Cardinality(written)
            /\ (written = RequestedPages /\ paths # <<>>) => PageNumberOf(paths[1]) = RequestedFirst

C11_Witness ==
    /\ op = "convert" /\ Converted
    /\ c_call.first_page = 2
    /\ c_call.env.saved = <<FALSE, TRUE>>
    /\ Len(c_call.out.value) = 1
    /\ PageNumberOf(c_call.out.value[1]) = 3

----------------------------------------------------------------------------
(* Properties of save_as_pdf_fpdf *)

OtherBackendOutcome ==
    save_as_pdf_reportlab(p_call.ocr_results, p_call.order, p_call.include_page_numbers,
                          p_call.env.build)

(* C12: when FPDF is not installed, or when its Unicode font cannot be     *)
(* loaded, save_as_pdf_fpdf hands the request to save_as_pdf_reportlab and *)
(* returns that backend's outcome; it does not go on with FPDF.            *)
C12_FallsBackToOtherBackend ==
    (p_call.called /\ (~p_call.env.fpdf_available \/ ~p_call.env.font_loads)) =>
        /\ p_call.out.backend = "reportlab"
        /\ p_call.out.returned = OtherBackendOutcome.returned
        /\ p_call.out.file = OtherBackendOutcome.file

----------------------------------------------------------------------------
(* Properties of optimize_image_for_ocr *)

(* C13: when a step of optimize_image_for_ocr fails, the image given is    *)
(* returned unchanged, with no earlier step applied to it, and the         *)
(* function never raises.                                                  *)
C13_FailureReturnsOriginal ==
    o_call.called =>
        /\ ~o_call.out.raised
        /\ o_call.out.failed => o_call.out.value = o_call.image

----------------------------------------------------------------------------
(* More properties of extract_text_batch *)

(* C14: a page result, once stored under its index, is never replaced or   *)
(* changed for the rest of the batch, also when the progress callback or   *)
(* the sleep raises after the page was recorded as success.                *)
C14_ResultsAppendOnly ==
    [][op = "batch" =>
        \A k \in DOMAIN results : k \in DOMAIN results' /\ results'[k] = results[k]]_vars

IsCallback(e) == e[1] = "callback"
IsRecord(e) == e[1] = "record"
Callbacks == SelectSeq(b_events, IsCallback)

IsCall(e) == e[1] = "call"
IsSleep(e) == e[1] = "sleep"
CallsAndSleeps == SelectSeq(b_events, LAMBDA e : IsCall(e) \/ IsSleep(e))

(* C16: over N >= 1 pages and a delay that can be slept, the batch sleeps  *)
(* `delay` seconds exactly N-1 times, once between every two consecutive   *)
(* pages whatever the earlier page was recorded as, never after the last   *)
(* page, and the pages are called in input order.                          *)
C16_SleepBetweenConsecutivePages ==
    (BatchDone /\ total >= 1 /\ delay >= 0) =>
        CallsAndSleeps = [k \in 1..(2 * total - 1) |->
                            IF k % 2 = 1 THEN <<"call", (k - 1) \div 2>> ELSE <<"sleep", delay>>]

----------------------------------------------------------------------------
(* Properties of the session state *)

(* C17: whenever process_pdf has returned, by any path, `processing` is    *)
(* False: the next run of the script does not enter process_pdf again and  *)
(* the start button is offered.                                            *)
C17_ProcessingClearedAtReturn ==
    Returned =>
        /\ ~processing
        /\ ~ENABLED main_process
        /\ run < MaxRuns => ENABLED main_click

(* lines 153, 169-170: the next run of the script shows the completion     *)
(* message and the download button                                         *)
ShowsCompleted == Returned /\ ~processing /\ session_results # NoResult

(* C18: the result offered for download belongs to the most recent run:    *)
(* after a run that failed or was abandoned the session does not hold the  *)
(* result of an earlier run, and the completion message is never shown     *)
(* with it.                                                                *)
C18_ResultIsOfLatestRun ==
    /\ (Returned /\ pp_exit # "success") => session_results = NoResult
    /\ ShowsCompleted => session_results.of_run = run

----------------------------------------------------------------------------
(* The inline loop of process_pdf against extract_text_batch *)

BothDone == op = "both" /\ b_pc = "done" /\ pp_pc = "save"

(* C19: for the same image list, the inline loop of process_pdf builds the *)
(* same mapping (keys, page numbers, texts, statuses, image references) as *)
(* extract_text_batch called without callback and with a non-negative      *)
(* delay; the batch sleeps between the pages and the inline loop does not. *)
C19_InlineLoopMatchesBatch ==
    /\ BothDone =>
        /\ ~b_returned.raised
        /\ pp_ocr_results = b_returned.value
        /\ DOMAIN pp_ocr_results = 0..(total - 1)
        /\ Len(SelectSeq(b_events, IsSleep)) = total - 1
    /\ op = "both" =>
        \A i \in DOMAIN pp_ocr_results \cap DOMAIN results : pp_ocr_results[i] = results[i]

C19_Witness ==
    /\ BothDone /\ total = 2
    /\ ModelCallFailed(x_script[1])
    /\ x_script[2].resp.content = << <<"T2">>, <<"T1">> >>
    /\ IsErrorMarker(pp_ocr_results[0].text)
    /\ pp_ocr_results[1].text = <<"T2">>
    /\ b_returned.value[0].status = "success"

====
